---- MODULE Spec2Model ----
(***************************************************************************)
(* mrcrypt.materials_manager: the legacy compatibility crypto materials    *)
(* manager.  MrcryptLegacyCompatibilityCryptoMaterialsManager wraps the    *)
(* AWS Encryption SDK's DefaultCryptoMaterialsManager: decrypt_materials   *)
(* first delegates to the default manager and, when that raises an         *)
(* AWSEncryptionSDKClientError or a KeyError, obtains the data key from    *)
(* the master key provider itself and loads the verification key from an   *)
(* uncompressed elliptic curve point.                                      *)
(*                                                                         *)
(* Each decrypt_materials call is a process c in Calls; a step is taken at *)
(* every call that leaves the wrapper (the provider, the key loaders), so  *)
(* calls of different threads interleave at those points.                  *)
(***************************************************************************)
EXTENDS Integers, Sequences, FiniteSets, TLC

\* Number of decrypt_materials calls (threads) of a run.
NCalls == 2

Calls == 1..NCalls

(***************************************************************************)
(* Requests.                                                               *)
(***************************************************************************)

\* Algorithm suites: one without signing, and the two ECDSA suites.
Algorithms == {"NoSig", "P256", "P384"}

\* algorithm.signing_algorithm_info is None for a suite that does not sign.
Signing(alg) == alg # "NoSig"

\* curve.key_size in bits of the suite's curve.
KeySize(alg) == IF alg = "P256" THEN 256 ELSE 384

\* byte_length = (curve.key_size + 7) // 8
ByteLength(alg) == (KeySize(alg) + 7) \div 8

\* The encryption context, reduced to its ENCODED_SIGNER_KEY entry: whether the
\* entry is present, whether its string is decodable base64, and of the decoded
\* bytes the first byte (tag), the length and whether the coordinates they
\* hold name a point of the curve.
AbsentKey == [present |-> FALSE, b64ok |-> FALSE, tag |-> 0, len |-> 0, onCurve |-> FALSE]

BadBase64Key == [present |-> TRUE, b64ok |-> FALSE, tag |-> 0, len |-> 0, onCurve |-> FALSE]

DecodableKeys ==
    [present : {TRUE}, b64ok : {TRUE}, tag : {2, 3, 4},
     len : {33, 49, 64, 65, 96, 97}, onCurve : BOOLEAN]

Contexts == {AbsentKey, BadBase64Key} \cup DecodableKeys

\* Encrypted data key lists: edkOwned and edkOther are encrypted under master
\* keys the provider holds, edkForeign under one it does not hold.
Requests == [encrypted_data_keys : {"edkOwned", "edkForeign"},
             algorithm : Algorithms,
             encryption_context : Contexts]

NoRequest == [encrypted_data_keys |-> "none", algorithm |-> "NoSig",
              encryption_context |-> AbsentKey]

\* A compressed point of the suite's curve (tag 2 or 3, then X).
CompressedKey(alg) ==
    [present |-> TRUE, b64ok |-> TRUE, tag |-> 3, len |-> ByteLength(alg) + 1, onCurve |-> TRUE]

\* An uncompressed point of the suite's curve (tag 4, then X and Y).
UncompressedKey(alg) ==
    [present |-> TRUE, b64ok |-> TRUE, tag |-> 4, len |-> 2 * ByteLength(alg) + 1, onCurve |-> TRUE]

\* The requests of the concurrent runs: independent messages of every shape.
ConcRequests ==
    { [encrypted_data_keys |-> "edkOwned", algorithm |-> "P384",
       encryption_context |-> CompressedKey("P384")],
      [encrypted_data_keys |-> "edkOwned", algorithm |-> "P384",
       encryption_context |-> UncompressedKey("P384")],
      [encrypted_data_keys |-> "edkOther", algorithm |-> "P256",
       encryption_context |-> UncompressedKey("P256")],
      [encrypted_data_keys |-> "edkOwned", algorithm |-> "P256",
       encryption_context |-> AbsentKey],
      [encrypted_data_keys |-> "edkForeign", algorithm |-> "P256",
       encryption_context |-> UncompressedKey("P256")],
      [encrypted_data_keys |-> "edkOther", algorithm |-> "P256",
       encryption_context |-> [UncompressedKey("P256") EXCEPT !.len = 64]] }

(***************************************************************************)
(* Failure kinds and the exception classes that carry them.                *)
(***************************************************************************)

FailureKinds == {"SignerKeyFieldMissing", "ContextValueError", "ProviderFailure",
                 "MalformedSignerKey", "InvalidCurvePoint", "OtherError"}

\* SignerKeyFieldMissing is the KeyError of encryption_context[ENCODED_SIGNER_KEY];
\* ContextValueError is the SDK's NotSupportedError and ProviderFailure its
\* DecryptKeyError, both AWSEncryptionSDKClientError subclasses; the point
\* parsing failures are ValueError (binascii.Error is one); OtherError is any
\* exception outside these classes (TypeError, a transport error).
ExceptionClass(kind) ==
    CASE kind = "SignerKeyFieldMissing" -> "KeyError"
      [] kind = "ContextValueError" -> "AWSEncryptionSDKClientError"
      [] kind = "ProviderFailure" -> "AWSEncryptionSDKClientError"
      [] kind = "MalformedSignerKey" -> "ValueError"
      [] kind = "InvalidCurvePoint" -> "ValueError"
      [] OTHER -> "Exception"

\* except (AWSEncryptionSDKClientError, KeyError):
Caught(kind) == ExceptionClass(kind) \in {"AWSEncryptionSDKClientError", "KeyError"}

(***************************************************************************)
(* Results.                                                                *)
(***************************************************************************)

NoDataKey == [encrypted_data_keys |-> "none", algorithm |-> "none",
              encryption_context |-> AbsentKey]

NoVerificationKey == "None"

NoMaterials == [data_key |-> NoDataKey, verification_key |-> NoVerificationKey]

\* DecryptionMaterials(data_key=..., verification_key=...)
DecryptionMaterials(dk, vk) == [data_key |-> dk, verification_key |-> vk]

Returned(m) == [status |-> "ok", materials |-> m, kind |-> "none"]

Raised(kind) == [status |-> "fail", materials |-> NoMaterials, kind |-> kind]

Pending == [status |-> "none", materials |-> NoMaterials, kind |-> "none"]

\* The DER SubjectPublicKeyInfo encoding of the public key of the suite's curve.
SubjectPublicKeyInfo(alg) == "SPKI-" \o alg

(***************************************************************************)
(* The collaborators: the master key provider and the two key loaders.     *)
(***************************************************************************)

KeyResult(vk) == [ok |-> TRUE, verification_key |-> vk, kind |-> "none"]

KeyFailure(kind) == [ok |-> FALSE, verification_key |-> NoVerificationKey, kind |-> kind]

\* The master keys the provider holds decrypt these encrypted data key lists.
Decryptable(edks) == edks \in {"edkOwned", "edkOther"}

\* master_key_provider.decrypt_data_key_from_list(encrypted_data_keys, algorithm,
\* encryption_context): the plaintext data key the three arguments determine, or
\* a failure: a DecryptKeyError (always, when no master key decrypts the list;
\* possibly, when the key service cannot be reached) or an exception of a
\* class outside the SDK's.
ProviderOutcomes(edks, alg, ctx) ==
    {[ok |-> FALSE, data_key |-> NoDataKey, kind |-> k] : k \in {"ProviderFailure", "OtherError"}}
    \cup (IF Decryptable(edks)
          THEN {[ok |-> TRUE,
                 data_key |-> [encrypted_data_keys |-> edks, algorithm |-> alg,
                               encryption_context |-> ctx],
                 kind |-> "none"]}
          ELSE {})

\* DefaultCryptoMaterialsManager._load_verification_key_from_encryption_context:
\* the key of a compressed point; a missing entry of a signing suite, an entry
\* of a suite that does not sign and an uncompressed point are refused with
\* the failures the wrapper catches.
StandardLoadVerificationKey(alg, ctx) ==
    IF ~ctx.present
    THEN (IF Signing(alg) THEN KeyFailure("SignerKeyFieldMissing") ELSE KeyResult(NoVerificationKey))
    ELSE IF ~Signing(alg) THEN KeyFailure("ContextValueError")
    ELSE IF ~ctx.b64ok THEN KeyFailure("OtherError")
    ELSE IF ctx.tag = 4 THEN KeyFailure("ContextValueError")
    ELSE IF ctx.len # ByteLength(alg) + 1 \/ ~ctx.onCurve THEN KeyFailure("OtherError")
    ELSE KeyResult(SubjectPublicKeyInfo(alg))

\* The loader without the signing_algorithm_info() call: the curve taken as
\* P-384 whatever the suite.
LoadUncompressedAnyAlgorithm(alg, ctx) ==
    IF ~ctx.present THEN KeyFailure("SignerKeyFieldMissing")
    ELSE IF ~ctx.b64ok THEN KeyFailure("MalformedSignerKey")
    ELSE IF ctx.tag # 4 THEN KeyFailure("MalformedSignerKey")
    ELSE IF ctx.len # 2 * ByteLength(alg) + 1 THEN KeyFailure("MalformedSignerKey")
    ELSE IF ~ctx.onCurve THEN KeyFailure("InvalidCurvePoint")
    ELSE KeyResult(SubjectPublicKeyInfo(alg))

\* _load_uncompressed_verification_key_from_encryption_context, in the order the
\* interpreter evaluates it: the context lookup (KeyError), base64.b64decode
\* (binascii.Error), algorithm.signing_algorithm_info() (TypeError when it is
\* None), from_encoded_point (ValueError unless the data starts with 0x04 and
\* is 2 * byte_length + 1 long), public_key (ValueError off the curve), and
\* the DER encoding.
LoadUncompressedVerificationKey(alg, ctx) ==
    IF ~ctx.present THEN KeyFailure("SignerKeyFieldMissing")
    ELSE IF ~ctx.b64ok THEN KeyFailure("MalformedSignerKey")
    ELSE IF ~Signing(alg) THEN KeyFailure("OtherError")
    ELSE IF ctx.tag # 4 THEN KeyFailure("MalformedSignerKey")
    ELSE IF ctx.len # 2 * ByteLength(alg) + 1 THEN KeyFailure("MalformedSignerKey")
    ELSE IF ~ctx.onCurve THEN KeyFailure("InvalidCurvePoint")
    ELSE KeyResult(SubjectPublicKeyInfo(alg))

(***************************************************************************)
(* The state of the calls.                                                 *)
(***************************************************************************)

VARIABLES
    concurrent,      \* whether the run's calls are made by concurrent threads
    pc,              \* where each call stands
    request,         \* the call's DecryptionMaterialsRequest
    data_key,        \* the local data_key of decrypt_materials
    outcome,         \* what the call returned or raised
    via,             \* the path that returned the materials
    std_result,      \* what super().decrypt_materials returned or raised
    provider_calls,  \* the provider invocations the call caused, in order
    fallback_error,  \* the failure the provider raised to the wrapper
    warnings,        \* _LOGGER.warning records the call emitted
    key_loads        \* times the wrapper decoded the signer key

vars == <<concurrent, pc, request, data_key, outcome, via, std_result,
          provider_calls, fallback_error, warnings, key_loads>>

Labels == {"idle", "std_data_key", "std_verification_key", "fallback_data_key",
           "fallback_verification_key", "done"}

TypeOK ==
    /\ concurrent \in BOOLEAN
    /\ pc \in [Calls -> Labels]
    /\ \A c \in Calls :
        /\ outcome[c].status \in {"none", "ok", "fail"}
        /\ outcome[c].kind \in FailureKinds \cup {"none"}
        /\ via[c] \in {"none", "standard", "legacy"}
        /\ warnings[c] \in 0..1
        /\ key_loads[c] \in 0..1
        /\ Len(provider_calls[c]) <= 2

StartState ==
    /\ pc = [c \in Calls |-> "idle"]
    /\ request = [c \in Calls |-> NoRequest]
    /\ data_key = [c \in Calls |-> NoDataKey]
    /\ outcome = [c \in Calls |-> Pending]
    /\ via = [c \in Calls |-> "none"]
    /\ std_result = [c \in Calls |-> Pending]
    /\ provider_calls = [c \in Calls |-> <<>>]
    /\ fallback_error = [c \in Calls |-> "none"]
    /\ warnings = [c \in Calls |-> 0]
    /\ key_loads = [c \in Calls |-> 0]

\* One caller resolving one message of any shape.
Init == concurrent = FALSE /\ StartState

\* NCalls threads resolving independent messages.
InitConc == concurrent = TRUE /\ StartState

(***************************************************************************)
(* decrypt_materials.                                                      *)
(***************************************************************************)

ProviderCall(by, edks, alg, ctx) ==
    [by |-> by, encrypted_data_keys |-> edks, algorithm |-> alg, encryption_context |-> ctx]

\* The try statement with the return dropped: the result of the default
\* manager is discarded and the fallback runs on every call.
TryStandardNoReturn(res) ==
    IF res.status = "ok" \/ Caught(res.kind)
    THEN [pc |-> "fallback_data_key", outcome |-> Pending, via |-> "none", warnings |-> 1]
    ELSE [pc |-> "done", outcome |-> res, via |-> "none", warnings |-> 0]

\* The try statement with the _LOGGER.warning call dropped.
TryStandardSilent(res) ==
    IF res.status = "ok"
    THEN [pc |-> "done", outcome |-> res, via |-> "standard", warnings |-> 0]
    ELSE IF Caught(res.kind)
    THEN [pc |-> "fallback_data_key", outcome |-> Pending, via |-> "none", warnings |-> 0]
    ELSE [pc |-> "done", outcome |-> res, via |-> "none", warnings |-> 0]

\* The try statement around super().decrypt_materials(request): a result is
\* returned as it is; an AWSEncryptionSDKClientError or a KeyError is logged,
\* the warning is emitted and control leaves the try statement for the
\* fallback; any other exception propagates.
TryStandard(res) ==
    IF res.status = "ok"
    THEN [pc |-> "done", outcome |-> res, via |-> "standard", warnings |-> 0]
    ELSE IF Caught(res.kind)
    THEN [pc |-> "fallback_data_key", outcome |-> Pending, via |-> "none", warnings |-> 1]
    ELSE [pc |-> "done", outcome |-> res, via |-> "none", warnings |-> 0]

\* The provider called with a context from which the signer key was removed.
FallbackProviderArgsStripped(r) ==
    [encrypted_data_keys |-> r.encrypted_data_keys, algorithm |-> r.algorithm,
     encryption_context |-> AbsentKey]

\* The arguments of the wrapper's own decrypt_data_key_from_list call.
FallbackProviderArgs(r) ==
    [encrypted_data_keys |-> r.encrypted_data_keys, algorithm |-> r.algorithm,
     encryption_context |-> r.encryption_context]

\* The provider call wrapped in a handler that swallows what it raises and
\* goes on to the key loading.
AfterFallbackProviderSwallowed(p) ==
    [pc |-> "fallback_verification_key", outcome |-> Pending, data_key |-> p.data_key]

\* data_key = self.master_key_provider.decrypt_data_key_from_list(...): the
\* call is outside any try statement, so what the provider raises leaves
\* decrypt_materials.
AfterFallbackProvider(p) ==
    IF p.ok
    THEN [pc |-> "fallback_verification_key", outcome |-> Pending, data_key |-> p.data_key]
    ELSE [pc |-> "done", outcome |-> Raised(p.kind), data_key |-> NoDataKey]

\* The data key kept in a field of the manager that every call overwrites:
\* the return statement reads what the latest call stored.
SharedDataKey(c) ==
    LET holders == {d \in Calls : data_key[d] # NoDataKey}
    IN IF holders = {} THEN NoDataKey
       ELSE data_key[CHOOSE d \in holders : \A e \in holders : d >= e]

\* The data_key the return statement passes to DecryptionMaterials: the call's
\* own local variable.
LocalDataKey(c) == data_key[c]

\* return DecryptionMaterials(data_key=data_key, verification_key=verification_key),
\* reached only when the key loader returned.
FallbackReturn(dk, k) ==
    IF k.ok THEN Returned(DecryptionMaterials(dk, k.verification_key)) ELSE Raised(k.kind)

\* A caller invokes decrypt_materials(request).
Call(c, r) ==
    /\ pc[c] = "idle"
    /\ IF concurrent THEN r \in ConcRequests ELSE c = 1 /\ r \in Requests
    /\ request' = [request EXCEPT ![c] = r]
    /\ pc' = [pc EXCEPT ![c] = "std_data_key"]
    /\ UNCHANGED <<concurrent, data_key, outcome, via, std_result, provider_calls,
                   fallback_error, warnings, key_loads>>

\* super().decrypt_materials(request), first half: the default manager asks
\* the provider for the data key.
StdDataKey(c) ==
    /\ pc[c] = "std_data_key"
    /\ LET r == request[c] IN
       \E p \in ProviderOutcomes(r.encrypted_data_keys, r.algorithm, r.encryption_context) :
         LET res == IF p.ok
                    THEN [Pending EXCEPT !.materials.data_key = p.data_key]
                    ELSE Raised(p.kind)
             t == TryStandard(res)
         IN /\ provider_calls' = [provider_calls EXCEPT ![c] =
                   Append(@, ProviderCall("standard", r.encrypted_data_keys, r.algorithm,
                                          r.encryption_context))]
            /\ std_result' = [std_result EXCEPT ![c] = res]
            /\ IF p.ok
               THEN /\ pc' = [pc EXCEPT ![c] = "std_verification_key"]
                    /\ UNCHANGED <<outcome, via, warnings>>
               ELSE /\ pc' = [pc EXCEPT ![c] = t.pc]
                    /\ outcome' = [outcome EXCEPT ![c] = t.outcome]
                    /\ via' = [via EXCEPT ![c] = t.via]
                    /\ warnings' = [warnings EXCEPT ![c] = @ + t.warnings]
    /\ UNCHANGED <<concurrent, request, data_key, fallback_error, key_loads>>

\* super().decrypt_materials(request), second half: the default manager loads
\* the verification key and returns the materials, or raises.
StdLoadKey(c) ==
    /\ pc[c] = "std_verification_key"
    /\ LET r == request[c]
           k == StandardLoadVerificationKey(r.algorithm, r.encryption_context)
           res == IF k.ok
                  THEN Returned(DecryptionMaterials(std_result[c].materials.data_key,
                                                    k.verification_key))
                  ELSE Raised(k.kind)
           t == TryStandard(res)
       IN /\ std_result' = [std_result EXCEPT ![c] = res]
          /\ pc' = [pc EXCEPT ![c] = t.pc]
          /\ outcome' = [outcome EXCEPT ![c] = t.outcome]
          /\ via' = [via EXCEPT ![c] = t.via]
          /\ warnings' = [warnings EXCEPT ![c] = @ + t.warnings]
    /\ UNCHANGED <<concurrent, request, data_key, provider_calls, fallback_error, key_loads>>

\* The fallback's decrypt_data_key_from_list call.
FallbackDataKey(c) ==
    /\ pc[c] = "fallback_data_key"
    /\ LET a == FallbackProviderArgs(request[c]) IN
       \E p \in ProviderOutcomes(a.encrypted_data_keys, a.algorithm, a.encryption_context) :
         LET t == AfterFallbackProvider(p) IN
            /\ provider_calls' = [provider_calls EXCEPT ![c] =
                   Append(@, ProviderCall("fallback", a.encrypted_data_keys, a.algorithm,
                                          a.encryption_context))]
            /\ fallback_error' = [fallback_error EXCEPT ![c] = p.kind]
            /\ data_key' = [data_key EXCEPT ![c] = t.data_key]
            /\ pc' = [pc EXCEPT ![c] = t.pc]
            /\ outcome' = [outcome EXCEPT ![c] = t.outcome]
    /\ UNCHANGED <<concurrent, request, via, std_result, warnings, key_loads>>

\* The fallback's key loading and the return statement.
FallbackLoadKey(c) ==
    /\ pc[c] = "fallback_verification_key"
    /\ LET r == request[c]
           k == LoadUncompressedVerificationKey(r.algorithm, r.encryption_context)
           res == FallbackReturn(LocalDataKey(c), k)
       IN /\ key_loads' = [key_loads EXCEPT ![c] = @ + 1]
          /\ outcome' = [outcome EXCEPT ![c] = res]
          /\ via' = [via EXCEPT ![c] = IF res.status = "ok" THEN "legacy" ELSE "none"]
          /\ pc' = [pc EXCEPT ![c] = "done"]
    /\ UNCHANGED <<concurrent, request, data_key, std_result, provider_calls,
                   fallback_error, warnings>>

Next ==
    \E c \in Calls :
        \/ \E r \in Requests \cup ConcRequests : Call(c, r)
        \/ StdDataKey(c)
        \/ StdLoadKey(c)
        \/ FallbackDataKey(c)
        \/ FallbackLoadKey(c)

Spec == Init /\ [][Next]_vars

SpecConc == InitConc /\ [][Next]_vars

(***************************************************************************)
(* decrypt_materials as a function of the request: the outcomes of a call  *)
(* that runs alone, one for every answer the provider may give.            *)
(***************************************************************************)

StandardOutcomes(r) ==
    { IF p.ok
      THEN LET k == StandardLoadVerificationKey(r.algorithm, r.encryption_context)
           IN IF k.ok THEN Returned(DecryptionMaterials(p.data_key, k.verification_key))
              ELSE Raised(k.kind)
      ELSE Raised(p.kind)
      : p \in ProviderOutcomes(r.encrypted_data_keys, r.algorithm, r.encryption_context) }

FallbackOutcomes(r) ==
    LET a == FallbackProviderArgs(r) IN
    { IF AfterFallbackProvider(p).pc = "done"
      THEN AfterFallbackProvider(p).outcome
      ELSE FallbackReturn(AfterFallbackProvider(p).data_key,
                          LoadUncompressedVerificationKey(r.algorithm, r.encryption_context))
      : p \in ProviderOutcomes(a.encrypted_data_keys, a.algorithm, a.encryption_context) }

AloneOutcomes(r) ==
    UNION { IF TryStandard(s).pc = "done" THEN {TryStandard(s).outcome} ELSE FallbackOutcomes(r)
            : s \in StandardOutcomes(r) }

(***************************************************************************)
(* What a call shows of its path.                                          *)
(***************************************************************************)

\* The provider invocations the wrapper itself made in call c.
FallbackCalls(c) ==
    Cardinality({i \in 1..Len(provider_calls[c]) : provider_calls[c][i].by = "fallback"})

\* Control of call c has left the try statement through the except clause.
EnteredFallback(c) ==
    pc[c] \in {"fallback_data_key", "fallback_verification_key"} \/ FallbackCalls(c) > 0

\* The data key the provider returns for the arguments of request r.
ProviderDataKey(r) ==
    [encrypted_data_keys |-> r.encrypted_data_keys, algorithm |-> r.algorithm,
     encryption_context |-> r.encryption_context]

\* A decodable uncompressed point one byte shorter than the suite's curve needs.
OneByteShort(r) ==
    /\ Signing(r.algorithm)
    /\ r.encryption_context.present /\ r.encryption_context.b64ok
    /\ r.encryption_context.tag = 4
    /\ r.encryption_context.len = 2 * ByteLength(r.algorithm)

\* A signer key entry of a signing suite that is not base64, does not start
\* with 0x04, or is not 1 + 2 * byte_length long.
MalformedKey(r) ==
    /\ Signing(r.algorithm)
    /\ r.encryption_context.present
    /\ \/ ~r.encryption_context.b64ok
       \/ r.encryption_context.tag # 4
       \/ r.encryption_context.len - 1 # 2 * ByteLength(r.algorithm)

(***************************************************************************)
(* Properties.                                                             *)
(***************************************************************************)

\* C1: when the default manager fails with anything but SignerKeyFieldMissing
\* or ContextValueError, decrypt_materials fails with that same failure, the
\* wrapper makes no provider call, loads no signer key and returns nothing.
OnlyLegacyFailuresEnterFallback ==
    \A c \in Calls :
        (/\ std_result[c].status = "fail"
         /\ std_result[c].kind \notin {"SignerKeyFieldMissing", "ContextValueError"})
        => /\ pc[c] = "done"
           /\ outcome[c] = std_result[c]
           /\ FallbackCalls(c) = 0
           /\ key_loads[c] = 0

\* C2: when the default manager succeeds, decrypt_materials returns exactly its
\* materials, and the wrapper calls no provider, loads no key and warns not.
StandardSuccessReturnedUnchanged ==
    \A c \in Calls :
        std_result[c].status = "ok"
        => /\ pc[c] = "done"
           /\ outcome[c] = std_result[c]
           /\ via[c] = "standard"
           /\ FallbackCalls(c) = 0
           /\ Len(provider_calls[c]) = 1
           /\ key_loads[c] = 0
           /\ warnings[c] = 0

StandardSuccessSeen ==
    \E c \in Calls :
        /\ pc[c] = "done" /\ std_result[c].status = "ok"
        /\ Signing(request[c].algorithm)
        /\ outcome[c].materials.verification_key # NoVerificationKey

\* C3: a fallback that runs on a signer key one byte too short never calls the
\* master key provider.
ShortKeyNeverReachesProvider ==
    \A c \in Calls :
        (EnteredFallback(c) /\ OneByteShort(request[c])) => FallbackCalls(c) = 0

\* C4: for a signing suite whose context has no signer key entry, the legacy
\* path is entered and, when the provider supplies the data key, the call
\* returns materials holding it.
MissingFieldStillResolves ==
    \A c \in Calls :
        (/\ pc[c] = "done"
         /\ Signing(request[c].algorithm)
         /\ ~request[c].encryption_context.present
         /\ FallbackCalls(c) = 1 /\ fallback_error[c] = "none")
        => /\ outcome[c].status = "ok"
           /\ outcome[c].materials.data_key = ProviderDataKey(request[c])

\* C5: a failure of the provider in the fallback leaves decrypt_materials as
\* the provider raised it: never as a signer key parsing failure, after one
\* provider call of the wrapper, with no key loaded and no materials.
FallbackProviderFailurePropagates ==
    \A c \in Calls :
        fallback_error[c] # "none"
        => /\ pc[c] = "done"
           /\ outcome[c] = Raised(fallback_error[c])
           /\ outcome[c].kind \notin {"MalformedSignerKey", "InvalidCurvePoint"}
           /\ FallbackCalls(c) = 1
           /\ key_loads[c] = 0
           /\ via[c] = "none"

FallbackProviderFailureSeen ==
    \E c \in Calls :
        /\ fallback_error[c] = "ProviderFailure"
        /\ MalformedKey(request[c])
        /\ std_result[c].kind = "ContextValueError"

\* C6: a fallback that runs on a malformed signer key (bad base64, first byte
\* not 0x04, wrong length) ends in MalformedSignerKey, without materials.
MalformedKeyFailsAsMalformed ==
    \A c \in Calls :
        (pc[c] = "done" /\ EnteredFallback(c) /\ MalformedKey(request[c]))
        => outcome[c] = Raised("MalformedSignerKey")

\* C7: returned materials hold a verification key only for a signing suite,
\* and hold one whenever the suite signs and the context has a signer key.
VerificationKeyMatchesAlgorithm ==
    \A c \in Calls :
        outcome[c].status = "ok"
        => LET alg == request[c].algorithm
               vk == outcome[c].materials.verification_key
           IN /\ vk # NoVerificationKey => Signing(alg)
              /\ (Signing(alg) /\ request[c].encryption_context.present)
                 => vk # NoVerificationKey

LegacyKeyReturned ==
    \E c \in Calls :
        /\ outcome[c].status = "ok" /\ via[c] = "legacy"
        /\ outcome[c].materials.verification_key = SubjectPublicKeyInfo(request[c].algorithm)
        /\ key_loads[c] = 1

\* C8: materials returned through the fallback hold the data key the provider
\* gives for the request's own encrypted data keys, algorithm and context,
\* which are the arguments of the wrapper's provider call.
FallbackDataKeyIsProviderDataKey ==
    \A c \in Calls :
        (outcome[c].status = "ok" /\ via[c] = "legacy")
        => LET r == request[c]
               last == provider_calls[c][Len(provider_calls[c])]
           IN /\ outcome[c].materials.data_key = ProviderDataKey(r)
              /\ last = ProviderCall("fallback", r.encrypted_data_keys, r.algorithm,
                                     r.encryption_context)

LegacyDataKeyReturned ==
    \E c \in Calls :
        /\ outcome[c].status = "ok" /\ via[c] = "legacy"
        /\ FallbackCalls(c) = 1
        /\ outcome[c].materials.data_key.encrypted_data_keys = "edkOwned"

\* C9 as stated: a finished call has emitted a warning if and only if it
\* returned materials through the fallback.
WarningIffLegacySuccess ==
    \A c \in Calls :
        pc[c] = "done" => (warnings[c] > 0 <=> via[c] = "legacy")

\* C9 as amended: a call emits the warning, once, exactly when it enters the
\* fallback; so a legacy success has emitted it, a standard success has not,
\* and a failed call has emitted it exactly when it failed inside the fallback.
WarningIffFallbackEntered ==
    \A c \in Calls :
        /\ warnings[c] = (IF EnteredFallback(c) THEN 1 ELSE 0)
        /\ via[c] = "legacy" => warnings[c] = 1
        /\ via[c] = "standard" => warnings[c] = 0
        /\ (pc[c] = "done" /\ outcome[c].status = "fail")
           => (warnings[c] = 1 <=> FallbackCalls(c) = 1)

WarningBeforeFailure ==
    \E c \in Calls :
        /\ pc[c] = "done" /\ outcome[c].status = "fail"
        /\ warnings[c] = 1 /\ key_loads[c] = 1

\* C10: whatever the interleaving, a finished call has an outcome it can have
\* when it runs alone on its request, and returned keys are its request's.
ConcurrentCallsIndependent ==
    \A c \in Calls :
        pc[c] = "done"
        => /\ outcome[c] \in AloneOutcomes(request[c])
           /\ outcome[c].status = "ok"
              => outcome[c].materials.data_key = ProviderDataKey(request[c])

InterleavedLegacyCalls ==
    \E c, d \in Calls :
        /\ c < d /\ request[c] # request[d]
        /\ pc[c] = "done" /\ via[c] = "legacy"
        /\ pc[d] = "fallback_verification_key"
        /\ data_key[d] # data_key[c]

====
